---- MODULE Spec2Model ----
(***************************************************************************)
(* Resolution refutation for propositional clauses                         *)
(* (lab02-logic/PS5/src/main.py): Literal, Clause, KnowledgeBase and the   *)
(* saturation loop of KnowledgeBase.pl_resolution.                         *)
(*                                                                         *)
(* A Python str is a sequence of one-character strings.  A Literal is a    *)
(* record [symbol, negated]; a Clause is its list `literals`.  A Python    *)
(* set of Clause objects keeps two members apart unless their hashes and   *)
(* they themselves are equal; __hash__ hashes tuple(literals), so two      *)
(* members with different literal lists are both kept: such a set is the   *)
(* TLA+ set of the literal lists.  A Python list membership test uses      *)
(* __eq__ alone (equal literal sets).                                      *)
(***************************************************************************)
EXTENDS Integers, Sequences, FiniteSets, TLC

\* ------------------------------------------------------------ bounds ----
\* Total size of one input record: the literals of the query line and of
\* the premise lines together (an empty line counts 1).
MaxInputSize == 4

\* The propositional symbols of the inputs, and the characters of the input
\* texts in code-point order (str comparison compares code points).
Symbols == <<"A", "B">>
Chars == <<" ", "-", "A", "B", "O", "R">>

Ord(ch) == CHOOSE i \in 1..Len(Chars) : Chars[i] = ch

Range(s) == {s[i] : i \in 1..Len(s)}

\* ----------------------------------------------------------- Literal ----
Literal(symbol, negated) == [symbol |-> symbol, negated |-> negated]

\* Literal.__repr__
Literal_repr(l) == IF l.negated THEN <<"-", l.symbol>> ELSE <<l.symbol>>

\* Literal.__lt__: by symbol, then unnegated before negated (False < True)
Literal_lt(self, other) ==
    IF self.symbol # other.symbol
    THEN Ord(self.symbol) < Ord(other.symbol)
    ELSE (~self.negated) /\ other.negated

\* Literal.negate
negate(l) == Literal(l.symbol, ~l.negated)

is_complement(self, other) ==
    self.negated # other.negated /\ self.symbol = other.symbol

\* Literal.parse indexes literal_str[0], and literal_str[1] after a "-":
\* an index past the end raises IndexError.
Literal_parse_raises(literal_str) ==
    IF Len(literal_str) = 0
    THEN TRUE
    ELSE literal_str[1] = "-" /\ Len(literal_str) < 2

Literal_parse(literal_str) ==
    IF literal_str[1] = "-"
    THEN Literal(literal_str[2], TRUE)
    ELSE Literal(literal_str[1], FALSE)

\* ------------------------------------------------------------- str ------
Sep == <<" ", "O", "R", " ">>

\* str.split(" OR "): cut at each occurrence of the separator, left to right
RECURSIVE split(_)
split(s) ==
    LET hits == {i \in 1..(Len(s) - 3) : SubSeq(s, i, i + 3) = Sep}
    IN  IF hits = {}
        THEN <<s>>
        ELSE LET i == CHOOSE h \in hits : \A g \in hits : h <= g
             IN  <<SubSeq(s, 1, i - 1)>> \o split(SubSeq(s, i + 4, Len(s)))

\* str.strip(): drop the leading and trailing blanks
RECURSIVE strip(_)
strip(s) ==
    IF Len(s) = 0 THEN s
    ELSE IF s[1] = " " THEN strip(Tail(s))
    ELSE IF s[Len(s)] = " " THEN strip(SubSeq(s, 1, Len(s) - 1))
    ELSE s

\* ------------------------------------------------------------ Clause ----
\* sorted(S) of a set of literals with Literal.__lt__: the literal at
\* position i has i - 1 literals of S before it (T is S, evaluated once)
sorted(S) ==
    CHOOSE r \in {<<>> \o [i \in 1..Cardinality(T) |->
                    CHOOSE x \in T : Cardinality({y \in T : Literal_lt(y, x)}) = i - 1] :
                  T \in {S}} : TRUE

\* refactor whose result is dropped: sorted(set(self.literals)) is computed
\* and self.literals stays as it was
refactor_result_dropped(literals) == literals

\* Clause.refactor: remove duplicates and sort
refactor(literals) == sorted(Range(literals))

\* Clause.__eq__: equal literal sets
Clause_eq(self, other) == Range(self) = Range(other)

is_empty(literals) == Len(literals) = 0

\* is_always_true with range(len(self.literals) - 2): the last pair of
\* neighbours is not looked at
is_always_true_skips_last(literals) ==
    \E i \in 1..(Len(literals) - 2) : is_complement(literals[i], literals[i + 1])

\* Clause.is_always_true: two neighbours of the sorted list are complements
is_always_true(literals) ==
    \E i \in 1..(Len(literals) - 1) : is_complement(literals[i], literals[i + 1])

\* Clause.merge
merge(self, other) == refactor(self \o other)

\* Clause.clone_without
clone_without(self, literal) ==
    LET keep(l) == l # literal
    IN  refactor(SelectSeq(self, keep))

\* Clause.parse: raises when Literal.parse raises on a piece
Clause_parse_raises(clause_str) ==
    LET pieces == split(clause_str)
    IN  \E k \in 1..Len(pieces) : Literal_parse_raises(strip(pieces[k]))

Clause_parse(clause_str) ==
    LET pieces == split(clause_str)
    IN  refactor([k \in 1..Len(pieces) |-> Literal_parse(strip(pieces[k]))])

\* pl_resolve that merges clause1 with `other` itself: literal2 is not
\* removed from the second parent
pl_resolve_keeps_literal2(self, other) ==
    LET pairs == {p \in (1..Len(self)) \X (1..Len(other)) :
                     is_complement(self[p[1]], other[p[2]])}
        made == {merge(clone_without(self, self[p[1]]), other) : p \in pairs}
    IN  [resolvents |-> {resolvent \in made : ~is_always_true(resolvent)},
         has_empty_clause |->
             \E resolvent \in made : ~is_always_true(resolvent) /\ is_empty(resolvent)]

\* Clause.pl_resolve: the resolvent of every complementary pair of literals
\* is made; an always-true one is skipped, an empty one sets has_empty_clause,
\* and what is not skipped is added to the set
pl_resolve(self, other) ==
    LET pairs == {p \in (1..Len(self)) \X (1..Len(other)) :
                     is_complement(self[p[1]], other[p[2]])}
        made == {merge(clone_without(self, self[p[1]]),
                       clone_without(other, other[p[2]])) : p \in pairs}
    IN  [resolvents |-> {resolvent \in made : ~is_always_true(resolvent)},
         has_empty_clause |->
             \E resolvent \in made : ~is_always_true(resolvent) /\ is_empty(resolvent)]

\* ----------------------------------------------------- KnowledgeBase ----
\* KnowledgeBase.parse: one refactored clause per premise line, in order
KnowledgeBase_parse_raises(lines) ==
    \E k \in 1..Len(lines) : Clause_parse_raises(lines[k])

KnowledgeBase_parse(lines) ==
    [k \in 1..Len(lines) |-> refactor(Clause_parse(lines[k]))]

\* `clause not in clauses` on a list: no element is __eq__ to it
list_contains(list, clause) ==
    \E k \in 1..Len(list) : Clause_eq(list[k], clause)

\* pl_resolution, step 1: for every literal of alpha, in order, append the
\* unit clause of its negation unless the list already holds an equal clause
RECURSIVE append_negated(_, _)
append_negated(list, pieces) ==
    IF Len(pieces) = 0 THEN list
    ELSE LET clause == <<negate(Literal_parse(strip(Head(pieces))))>>
         IN  append_negated(IF list_contains(list, clause)
                            THEN list
                            ELSE Append(list, clause),
                            Tail(pieces))

alpha_raises(alpha_str) ==
    LET pieces == split(alpha_str)
    IN  \E k \in 1..Len(pieces) : Literal_parse_raises(strip(pieces[k]))

\* step 1 with `clauses = self.clauses` (no copy): the appends go to the
\* KnowledgeBase's own list
negated_query_alias(self_clauses, alpha_str) ==
    [local |-> append_negated(self_clauses, split(alpha_str)),
     self_clauses |-> append_negated(self_clauses, split(alpha_str))]

\* pl_resolution, step 1, on a KnowledgeBase whose clauses are self_clauses:
\* `local` is the list `clauses` the appends leave, `self_clauses` is
\* self.clauses after them (the appends go to a copy, self.clauses.copy())
negated_query(self_clauses, alpha_str) ==
    [local |-> append_negated(self_clauses, split(alpha_str)),
     self_clauses |-> self_clauses]

\* set(clauses) of a list of Clause objects
set_of(list) == Range(list)

Min(S) == CHOOSE x \in S : \A y \in S : x <= y

\* clause1.pl_resolve(clause2) for every pair of P, each computed once
\* (pl_resolve reads its two clauses and changes nothing)
resolve_table(P) == [p \in P |-> pl_resolve(p[1], p[2])] @@ <<>>

\* The inner loop with the break taken before new_clauses.update(resolvents):
\* the resolvents of the pair that yields the empty clause are not added
inner_loop_breaks_before_update(resolved, clause1, order) ==
    LET hits == {j \in 1..Len(order) : resolved[clause1, order[j]].has_empty_clause}
        last == IF hits = {} THEN Len(order) ELSE Min(hits) - 1
    IN  [resolvents |-> UNION {resolved[clause1, order[j]].resolvents : j \in 1..last},
         has_empty_clause |-> hits # {}]

\* The inner loop for one clause1: clause2 runs through the working set in
\* its iteration order and the loop breaks after the first clause2 that
\* yields the empty clause; the resolvents up to and including it are added.
inner_loop(resolved, clause1, order) ==
    LET hits == {j \in 1..Len(order) : resolved[clause1, order[j]].has_empty_clause}
        last == IF hits = {} THEN Len(order) ELSE Min(hits)
    IN  [resolvents |-> UNION {resolved[clause1, order[j]].resolvents : j \in 1..last},
         has_empty_clause |-> hits # {}]

\* The nested loops left altogether at the first contradiction (a return or a
\* flag checked by the outer loop, instead of a break of the inner one)
resolve_pairs_stops_at_first(resolved, order, unsat) ==
    LET n == Len(order)
        hits == {p \in (1..n) \X (1..n) :
                    resolved[order[p[1]], order[p[2]]].has_empty_clause}
        first_hit == CHOOSE p \in hits : \A q \in hits :
                        p[1] < q[1] \/ (p[1] = q[1] /\ p[2] <= q[2])
        done == {p \in (1..n) \X (1..n) :
                    hits = {} \/ p[1] < first_hit[1]
                              \/ (p[1] = first_hit[1] /\ p[2] <= first_hit[2])}
    IN  [new_clauses |-> UNION {resolved[order[p[1]], order[p[2]]].resolvents : p \in done},
         is_unsatisfiable |-> unsat \/ hits # {}]

\* The nested loops with `is_unsatisfiable = has_empty_clause` and no break:
\* the flag is the one of the last pair
resolve_pairs_flag_of_last(resolved, order, unsat) ==
    LET n == Len(order)
    IN  [new_clauses |-> UNION {resolved[order[p[1]], order[p[2]]].resolvents :
                                   p \in (1..n) \X (1..n)},
         is_unsatisfiable |-> n > 0 /\ resolved[order[n], order[n]].has_empty_clause]

\* Step 2.1: the two nested loops over the working set, iterated in `order`
resolve_pairs(resolved, order, unsat) ==
    LET inner == [i \in 1..Len(order) |-> inner_loop(resolved, order[i], order)]
    IN
    [new_clauses |-> UNION {inner[i].resolvents : i \in 1..Len(order)},
     is_unsatisfiable |->
         unsat \/ \E i \in 1..Len(order) : inner[i].has_empty_clause]

\* output.append(new_clauses): the clauses of the working set are not taken out
trace_entry_all(new, working) == new

\* The entry appended to output: new_clauses.difference(clauses)
trace_entry(new, working) == new \ working

\* step 2.3 as `if not new_clauses`
is_saturated_if_empty(new, working) == new = {}

\* Step 2.3: new_clauses.issubset(clauses)
is_saturated(new, working) == new \subseteq working

\* The orders a set can be iterated in (str hashes differ from run to run)
RECURSIVE Orders(_)
Orders(S) ==
    IF S = {} THEN {<<>>}
    ELSE UNION {{<<x>> \o o : o \in Orders(S \ {x})} : x \in S}

\* ------------------------------------------------------------ inputs ----
Literals == {Literal(Symbols[i], n) : i \in 1..Len(Symbols), n \in BOOLEAN}

\* The text of a line: its literals joined by " OR " (an empty line for none)
RECURSIVE line_of(_)
line_of(ls) ==
    IF Len(ls) = 0 THEN <<>>
    ELSE IF Len(ls) = 1 THEN Literal_repr(ls[1])
    ELSE Literal_repr(ls[1]) \o Sep \o line_of(Tail(ls))

\* The lines of an input record: `flat` holds the literals of all lines one
\* after the other, a line ends at each position of `cuts` and at the end,
\* and a position of `blank` stands for an empty line
RECURSIVE lines_from(_, _, _, _)
lines_from(flat, blank, cuts, i) ==
    IF i > Len(flat) THEN <<>>
    ELSE LET e == Min({c \in cuts \cup {Len(flat)} : c >= i})
         IN  <<IF i \in blank THEN <<>> ELSE SubSeq(flat, i, e)>>
             \o lines_from(flat, blank, cuts, e + 1)

\* An empty line stands alone between two line ends
Layouts(k) ==
    {lay \in (SUBSET (1..k)) \X (SUBSET (1..(k - 1))) :
        \A b \in lay[1] : (b = 1 \/ b - 1 \in lay[2]) /\ (b = k \/ b \in lay[2])}

AnyLiteral == Literal(Symbols[1], FALSE)

\* The query line again, as it is or with two neighbouring literals
\* exchanged (any order of the literals is reached by such exchanges, and
\* every order is the query line of some input)
Reorderings(alpha_str) ==
    LET pieces == split(alpha_str)
        RECURSIVE join(_)
        join(ps) == IF Len(ps) = 1 THEN ps[1] ELSE ps[1] \o Sep \o join(Tail(ps))
        swap(i) == [k \in 1..Len(pieces) |->
                       IF k = i THEN pieces[i + 1]
                       ELSE IF k = i + 1 THEN pieces[i]
                       ELSE pieces[k]]
    IN  {alpha_str} \cup {join(swap(i)) : i \in 1..(Len(pieces) - 1)}

\* ------------------------------------------------------------- state ----
VARIABLES
    alpha,              \* the query line
    premises,           \* the premise lines
    KB,                 \* KB.clauses: the list of the KnowledgeBase's clauses
    clauses,            \* pl_resolution's working set
    new_clauses,        \* the resolvents of the current round
    output,             \* the trace: one set of clauses per round
    is_unsatisfiable,
    pc,                 \* "input", "start", "parsed", "resolve", "check", "returned", "raised"
    result,             \* the tuple the last call returned
    first,              \* the tuple the first call on this KB returned
    call                \* which call on this KB is running: 0 (none), 1 or 2

vars == <<alpha, premises, KB, clauses, new_clauses, output, is_unsatisfiable,
          pc, result, first, call>>

None == [entail |-> FALSE, output |-> <<>>]

Init ==
    /\ alpha = <<>>
    /\ premises = <<>>
    /\ KB = <<>>
    /\ clauses = {}
    /\ new_clauses = {}
    /\ output = <<>>
    /\ is_unsatisfiable = FALSE
    /\ pc = "input"
    /\ result = None
    /\ first = None
    /\ call = 0

\* alpha, clauses = read_input(input_file): the first line is the query, the
\* lines after the count line are the premises; the input is any record of
\* size at most n
read_input(n) ==
    /\ pc = "input"
    /\ \E k \in 1..n : \E lay \in Layouts(k) :
          \E flat \in {f \in [1..k -> Literals] : \A b \in lay[1] : f[b] = AnyLiteral} :
             LET lines == lines_from(flat, lay[1], lay[2], 1)
             IN  /\ alpha' = line_of(lines[1])
                 /\ premises' = [j \in 1..(Len(lines) - 1) |-> line_of(lines[j + 1])]
    /\ pc' = "start"
    /\ UNCHANGED <<KB, clauses, new_clauses, output, is_unsatisfiable, result,
                   first, call>>

ReadInput == read_input(MaxInputSize)

\* The search for fair cycles is the costly one: it reads the inputs that
\* are one smaller
ReadSmallInput == read_input(MaxInputSize - 1)

\* KB = KnowledgeBase.parse(clauses)
ParseKB ==
    /\ pc = "start"
    /\ ~KnowledgeBase_parse_raises(premises)
    /\ KB' = KnowledgeBase_parse(premises)
    /\ pc' = "parsed"
    /\ UNCHANGED <<alpha, premises, clauses, new_clauses, output,
                   is_unsatisfiable, result, first, call>>

\* KnowledgeBase.parse on a line Clause.parse cannot read: IndexError
ParseKBRaises ==
    /\ pc = "start"
    /\ KnowledgeBase_parse_raises(premises)
    /\ pc' = "raised"
    /\ UNCHANGED <<alpha, premises, KB, clauses, new_clauses, output,
                   is_unsatisfiable, result, first, call>>

\* pl_resolution up to the loop (steps 1 and the initialisation of step 2)
Enter(alpha_str) ==
    /\ alpha' = alpha_str
    /\ IF alpha_raises(alpha_str)
       THEN /\ pc' = "raised"
            /\ UNCHANGED <<KB, clauses, output, is_unsatisfiable>>
       ELSE /\ KB' = negated_query(KB, alpha_str).self_clauses
            /\ clauses' = set_of(negated_query(KB, alpha_str).local)
            /\ output' = <<>>
            /\ is_unsatisfiable' = FALSE
            /\ pc' = "resolve"
    /\ new_clauses' = {}
    /\ call' = call + 1
    /\ UNCHANGED <<premises, result>>

\* entail, output_clauses = KB.pl_resolution(alpha)
Call ==
    /\ pc = "parsed"
    /\ Enter(alpha)
    /\ UNCHANGED first

\* a second query on the same KnowledgeBase, its literals in any order
CallAgain ==
    /\ pc = "returned"
    /\ call = 1
    /\ first' = result
    /\ \E a \in Reorderings(alpha) : Enter(a)

\* step 2.1: one pass of the nested loops over all pairs of the working set
ResolvePairs ==
    /\ pc = "resolve"
    /\ \E resolved \in {resolve_table(clauses \X clauses)} :
       \E order \in Orders(clauses) :
          LET r == resolve_pairs(resolved, order, is_unsatisfiable)
          IN  /\ new_clauses' = r.new_clauses
              /\ is_unsatisfiable' = r.is_unsatisfiable
    /\ pc' = "check"
    /\ UNCHANGED <<alpha, premises, KB, clauses, output, result, first, call>>

\* line 227 and step 2.2: return True, output
ReturnTrue ==
    /\ pc = "check"
    /\ is_unsatisfiable
    /\ output' = Append(output, trace_entry(new_clauses, clauses))
    /\ result' = [entail |-> TRUE, output |-> output']
    /\ pc' = "returned"
    /\ UNCHANGED <<alpha, premises, KB, clauses, new_clauses, is_unsatisfiable,
                   first, call>>

\* line 227 and step 2.3: return False, output
ReturnFalse ==
    /\ pc = "check"
    /\ ~is_unsatisfiable
    /\ is_saturated(new_clauses, clauses)
    /\ output' = Append(output, trace_entry(new_clauses, clauses))
    /\ result' = [entail |-> FALSE, output |-> output']
    /\ pc' = "returned"
    /\ UNCHANGED <<alpha, premises, KB, clauses, new_clauses, is_unsatisfiable,
                   first, call>>

\* line 227 and step 2.4: clauses.update(new_clauses), next round
Update ==
    /\ pc = "check"
    /\ ~is_unsatisfiable
    /\ ~is_saturated(new_clauses, clauses)
    /\ output' = Append(output, trace_entry(new_clauses, clauses))
    /\ clauses' = clauses \cup new_clauses
    /\ pc' = "resolve"
    /\ UNCHANGED <<alpha, premises, KB, new_clauses, is_unsatisfiable,
                   result, first, call>>

Next ==
    \/ ReadInput
    \/ ParseKB
    \/ ParseKBRaises
    \/ Call
    \/ CallAgain

    \/ ResolvePairs
    \/ ReturnTrue
    \/ ReturnFalse
    \/ Update

Spec == Init /\ [][Next]_vars

\* pl_resolution is sequential code: once in the loop, the pass over the
\* pairs and the checks that end the round are taken, one after the other.
Round == ResolvePairs \/ ReturnTrue \/ ReturnFalse \/ Update

NextSmall ==
    \/ ReadSmallInput
    \/ ParseKB
    \/ ParseKBRaises
    \/ Call
    \/ CallAgain
    \/ Round

FairSpec == Init /\ [][NextSmall]_vars /\ WF_vars(Round)

\* ------------------------------------------------------------ claims ----
Last(seq) == seq[Len(seq)]

\* The state of the refutation loop
LoopState ==
    IF pc \in {"resolve", "check"} THEN "SATURATING"
    ELSE IF pc = "returned"
         THEN (IF result.entail THEN "REFUTED" ELSE "SATURATED")
         ELSE "NONE"

\* Truth-table reference: the literals written on a line, a truth assignment
\* of the symbols, and entailment of the query by the premises
LiteralsOn(line) ==
    {Literal_parse(strip(split(line)[k])) : k \in 1..Len(split(line))}

Assignments == [Range(Symbols) -> BOOLEAN]

Holds(v, l) == v[l.symbol] # l.negated

Entailed ==
    \A v \in Assignments :
        (\A k \in 1..Len(premises) : \E l \in LiteralsOn(premises[k]) : Holds(v, l))
            => \E l \in LiteralsOn(alpha) : Holds(v, l)

\* A clause that holds a literal together with its complement, wherever
Tautology(c) == \E i, j \in 1..Len(c) : is_complement(c[i], c[j])

\* What a full round over the working set W derives
AllResolvents(W) == UNION {pl_resolve(c1, c2).resolvents : c1 \in W, c2 \in W}

DerivesEmpty(W) == \E c1 \in W, c2 \in W : pl_resolve(c1, c2).has_empty_clause

\* Every complementary pair's resolvent, before the always-true ones go
RawResolvents(c1, c2) ==
    {merge(clone_without(c1, c1[i]), clone_without(c2, c2[j])) :
        <<i, j>> \in {p \in (1..Len(c1)) \X (1..Len(c2)) : is_complement(c1[p[1]], c2[p[2]])}}

ClauseUniverse == {sorted(S) : S \in SUBSET Literals}

\* C1: when pl_resolution returns, its verdict is True if and only if the
\* query is entailed by the premises: no truth assignment satisfies every
\* premise and falsifies every literal of the query.
C1_VerdictIsEntailment ==
    pc = "returned" => (result.entail <=> Entailed)

C1_Witness ==
    /\ pc = "returned"
    /\ result.entail
    /\ Len(result.output) >= 2
    /\ Len(premises) >= 2

\* C2: every loop that was entered returns; the working set strictly grows
\* in every round that does not return, and it stays inside the finite set of
\* the clauses over the alphabet.
C2_LoopReturns ==
    /\ (pc = "resolve") ~> (pc = "returned")
    /\ [][(pc = "check" /\ pc' = "resolve")
            => (clauses \subseteq clauses' /\ clauses' # clauses)]_vars
    /\ [](clauses \subseteq ClauseUniverse)

C2_Witness ==
    /\ pc = "returned"
    /\ Len(result.output) >= 2
    /\ Cardinality(clauses) > Cardinality(set_of(negated_query(KB, alpha).local))

\* C3: a second run on the same premises and the same query, its literals
\* in another order and the working set iterated in any order, returns the
\* verdict and, round by round, the trace entries of the first run.
C3_RunsAgree ==
    (pc = "returned" /\ call = 2) => result = first

C3_Witness ==
    /\ pc = "returned"
    /\ call = 2
    /\ result.entail
    /\ Cardinality(clauses) >= 3
    /\ Cardinality(Last(result.output)) >= 2
    /\ Len(split(alpha)) >= 2

\* C4: pl_resolution leaves KB.clauses as KnowledgeBase.parse built it, the
\* same clauses in the same order, and a second call starts from the working
\* set a freshly parsed KnowledgeBase gives.
C4_KBUnchanged ==
    pc \in {"resolve", "check", "returned"} =>
        /\ KB = KnowledgeBase_parse(premises)
        /\ (call = 2 /\ pc = "resolve" /\ output = <<>>) =>
              clauses = set_of(negated_query(KnowledgeBase_parse(premises), alpha).local)

C4_Witness ==
    /\ call = 2
    /\ pc = "resolve"
    /\ output = <<>>
    /\ Len(KB) >= 2
    /\ Cardinality(clauses) > Len(KB)

\* C5: an empty premise line is accepted as the empty clause: parsing the
\* premises does not fail on it, and the KnowledgeBase holds the clause with
\* no literals in its place.
C5_EmptyLineIsEmptyClause ==
    \A k \in 1..Len(premises) :
        premises[k] = <<>> =>
            /\ ~(pc = "raised" /\ call = 0)
            /\ pc # "start" => (Len(KB) = Len(premises) /\ is_empty(KB[k]))

C7_NoTautologyReturned ==
    pc = "resolve" =>
        \A c1, c2 \in clauses :
            \A r \in pl_resolve(c1, c2).resolvents : ~Tautology(r)

\* Some pair of the working set merges to an always-true clause, which is
\* dropped, and some pair has a resolvent that is returned
C7_Witness ==
    /\ pc = "resolve"
    /\ \E c \in clauses : Tautology(c)
    /\ \E c1, c2 \in clauses : \E r \in RawResolvents(c1, c2) : Tautology(r)
    /\ \E c1, c2 \in clauses : pl_resolve(c1, c2).resolvents # {}

\* C8: the loop starts in SATURATING and leaves it only at the end of a
\* round: to REFUTED exactly when the round's working set derives the empty
\* clause from some pair, to SATURATED exactly when it derives no empty clause
\* and every resolvent is already in the working set; REFUTED and SATURATED
\* are left only by a new call, and the working set changes only on a
\* SATURATING-to-SATURATING step.
C8_LoopStateMachine ==
    [][/\ (LoopState # "SATURATING" /\ LoopState' = "SATURATING") =>
              (call' = call + 1 /\ pc' = "resolve")
       /\ LoopState = "SATURATING" =>
              /\ call' = call
              /\ LoopState' \in {"SATURATING", "REFUTED", "SATURATED"}
       /\ (LoopState = "SATURATING" /\ Len(output') = Len(output) + 1) =>
              /\ pc = "check"
              /\ LoopState' = "REFUTED" <=> DerivesEmpty(clauses)
              /\ LoopState' = "SATURATED" <=>
                    (~DerivesEmpty(clauses) /\ AllResolvents(clauses) \subseteq clauses)
       /\ (LoopState = "SATURATING" /\ LoopState' # "SATURATING") =>
              Len(output') = Len(output) + 1
       /\ LoopState \in {"REFUTED", "SATURATED"} =>
              (LoopState' = LoopState \/ call' = call + 1)
       /\ (clauses' # clauses /\ call' = call) =>
              (LoopState = "SATURATING" /\ LoopState' = "SATURATING")
      ]_vars

C8_Witness ==
    /\ pc = "returned"
    /\ LoopState = "SATURATED"
    /\ Len(output) >= 2
    /\ call = 2

\* C9: the entry a round appends to the trace is the set of the resolvents
\* of all ordered pairs of the working set the round started with, minus that
\* working set, also in the round that breaks on a contradiction.
C9_EntryIsAllResolvents ==
    [][Len(output') = Len(output) + 1 =>
          Last(output') = AllResolvents(clauses) \ clauses]_vars

\* The round that found the contradiction: the inner loop of some clause1
\* breaks at clause2 while another clause of the working set gives, with
\* clause1, a resolvent that is new
C9_Witness ==
    /\ pc = "returned"
    /\ result.entail
    /\ Cardinality(Last(output)) >= 2
    /\ \E clause1, clause2, clause3 \in clauses :
          /\ clause2 # clause3
          /\ pl_resolve(clause1, clause2).has_empty_clause
          /\ \E r \in pl_resolve(clause1, clause3).resolvents : r \notin clauses

\* C10 as stated: at the saturation check, new_clauses is a subset of the
\* working set if and only if new_clauses is empty.
C10_SubsetIffEmpty ==
    pc = "check" => (is_saturated(new_clauses, clauses) <=> new_clauses = {})

\* C10 amended: the loop returns False exactly in a round whose trace entry
\* (new_clauses minus the working set) is empty, and every round that goes on
\* has a non-empty entry; an empty new_clauses is a subset, but a non-empty
\* one can be a subset too.
C10_SaturatedIffEntryEmpty ==
    /\ pc = "returned" => (~result.entail <=> Last(output) = {})
    /\ \A i \in 1..(Len(output) - 1) : output[i] # {}
    /\ (pc = "check" /\ new_clauses = {}) => is_saturated(new_clauses, clauses)

C10_Witness ==
    /\ pc = "returned"
    /\ ~result.entail
    /\ new_clauses # {}
    /\ Last(output) = {}

====
